---- MODULE Spec2Model ----
(***************************************************************************)
(* A model of arango_orm's Database (database.py): the graph-schema        *)
(* synchronizer (create_graph, update_graph, create_all, drop_graph) and   *)
(* the change-tracked persister (add, update, bulk_add, bulk_update,       *)
(* delete), each over an abstract database client.                         *)
(***************************************************************************)
EXTENDS Integers, Sequences, FiniteSets, TLC

\* ------------------------------------------------------------------ bounds

\* Longest declared or live source list of an edge definition.
MaxLen == 2
\* Builder calls made on one query builder.
MaxCalls == 3

\* ------------------------------------------------------- synchronizer: names

VertexNames == {"A", "B"}
\* The database's own order of collection names (used when it stores sets).
NameOrder == <<"A", "B">>
EdgeNames == {"r1", "r2"}
\* Iteration order of graph_object.edges.items() / existing_edges.items().
EdgeOrder == <<"r1", "r2">>
\* Collection classes declared outside the graph: S derives from Collection,
\* T from Relation.
StandaloneNames == {"S", "T"}
CollNames == VertexNames \cup EdgeNames \cup StandaloneNames

Range(s) == {s[i] : i \in DOMAIN s}

Lists == UNION {[1..n -> VertexNames] : n \in 1..MaxLen}
\* The target lists tried: one name, two names, one name twice.
ToLists == {<<"B">>, <<"A", "B">>, <<"B", "B">>}
\* An edge definition's two endpoint lists; NoDef stands for "no definition".
Shapes == [from : Lists, to : ToLists]
NoDef == [from |-> <<>>, to |-> <<>>]

VARIABLES
    decl,        \* declared relations: edge name -> Shape, or NoDef when undeclared
    dedup,       \* TRUE when the server stores endpoint lists as sorted sets
    graphExists, \* the named graph exists in the database
    edgeDefs,    \* live edge definitions: edge name -> Shape or NoDef
    colls,       \* collection name -> "absent" | "bare" | "indexed"
    calls,       \* client calls and log lines of the last operation, in order
    pre,         \* the live state the last operation started from
    lastOp,      \* name of the last operation
    syncRun,     \* consecutive synchronization passes since any other write (0..2)
    kwargs,      \* the arguments given to the last operation
    ents,        \* entity -> [key, rev, dirty]: identity fields and dirty set
    pev,         \* hooks dispatched and client calls made by the last persister call
    pop,         \* the last persister call and its arguments
    ppre,        \* ents as the last persister call found it
    streak,      \* [n, e]: n (0..2) successful update(e, only_dirty=True) calls in a row
    filter_conditions,   \* Query._filter_conditions: sequence of [condition, joiner]
    sort_columns,        \* Query._sort_columns
    limit,               \* Query._limit: PyNone or the value the last limit call stored
    limit_start_record,  \* Query._limit_start_record
    bind_vars,           \* Query._bind_vars: bind-variable name -> value
    qhist,       \* the builder calls made so far, with their arguments, in order
    qpre,        \* the builder's fields as the last builder call found them
    executed,    \* what the last call, if it was all(), passed to aql.execute
    pc,          \* pass -> [at, idx, raised]: where a concurrent create_all stands
    view         \* pass -> what the pass has read: graph_info, collection names, edges

syncVars == <<decl, dedup, graphExists, edgeDefs, colls, calls, pre, lastOp, syncRun, kwargs>>
persVars == <<ents, pev, pop, ppre, streak>>
queryVars == <<filter_conditions, sort_columns, limit, limit_start_record, bind_vars,
               qhist, qpre, executed>>
raceVars == <<pc, view>>
vars == <<syncVars, persVars, queryVars, raceVars>>

Call(op, name) == [op |-> op, name |-> name]

\* ------------------------------------------------------ the database client

Norm(l) == SelectSeq(NameOrder, LAMBDA n : n \in Range(l))
\* What the server keeps of an edge definition it is handed.
DbStore(shape) ==
    IF dedup THEN [from |-> Norm(shape.from), to |-> Norm(shape.to)] ELSE shape

\* Creating a graph or an edge definition makes the server create the
\* collections it names that do not exist, without any index.
AutoCreate(cs, names) ==
    [c \in CollNames |-> IF c \in names /\ cs[c] = "absent" THEN "bare" ELSE cs[c]]

ShapeColls(r, shape) == {r} \cup Range(shape.from) \cup Range(shape.to)

\* ------------------------------------------------------------ declaration

Declared == {r \in EdgeNames : decl[r] # NoDef}
DeclRels == SelectSeq(EdgeOrder, LAMBDA r : r \in Declared)
DeclVertices == UNION {Range(decl[r].from) \cup Range(decl[r].to) : r \in Declared}

\* ------------------------------------------------------------- synchronizer

\* Database.create_collection: the client's create_collection, then one
\* add_<type>_index call per declared index.  Raises when the name exists.
CreateCollectionRaises(cs, c) == cs[c] # "absent"
CreateCollection(cs, c) == [cs EXCEPT ![c] = "indexed"]

\* One round of a "try: create_collection(col) except: warn" loop body, as
\* create_graph runs it: the error of an existing collection is swallowed.
TryCreate(m, c) ==
    IF CreateCollectionRaises(m.colls, c)
    THEN [m EXCEPT !.calls = Append(@, Call("warn_create_failed", c))]
    ELSE [m EXCEPT !.colls = CreateCollection(@, c),
                   !.calls = Append(@, Call("create_collection", c))]

\* update_graph's vertex loop body: skip a name that is among the existing
\* collection names, else create the collection.
EnsureVertex(m, existing, c) ==
    IF c \in existing THEN m ELSE TryCreate(m, c)

\* update_graph's edge loop body: create_collection(rel_obj, edge=True) passes
\* a keyword Database.create_collection does not accept, so the call raises
\* TypeError before it creates anything, and the except clause logs a warning.
EnsureEdge(m, existing, c) ==
    IF c \in existing THEN m
    ELSE [m EXCEPT !.calls = Append(@, Call("warn_create_failed", c))]

RECURSIVE FoldSeq(_, _, _)
\* The state after running Op(m, x) for each x of seq in order.
FoldSeq(Op(_, _), m, seq) ==
    IF seq = <<>> THEN m ELSE FoldSeq(Op, Op(m, Head(seq)), Tail(seq))

SetToSeq(S, order) == SelectSeq(order, LAMBDA x : x \in S)

IsSameEdge(e1, e2) ==
    IF Len(e1.to) # Len(e2.to) \/ Len(e1.from) # Len(e2.from)
    THEN FALSE
    ELSE /\ \A i \in DOMAIN e1.to : e1.to[i] \in Range(e2.to)
         /\ \A i \in DOMAIN e1.from : e1.from[i] \in Range(e2.from)

\* update_graph's relation loop body, against the snapshot existing_edges.
SyncRelation(m, existing_edges, r) ==
    IF existing_edges[r] = NoDef
    THEN [m EXCEPT !.defs[r] = DbStore(decl[r]),
                   !.colls = AutoCreate(@, ShapeColls(r, decl[r])),
                   !.calls = Append(@, Call("create_edge_definition", r))]
    ELSE IF ~IsSameEdge(decl[r], existing_edges[r])
    THEN [m EXCEPT !.defs[r] = DbStore(decl[r]),
                   !.colls = AutoCreate(@, ShapeColls(r, decl[r])),
                   !.calls = Append(@, Call("replace_edge_definition", r))]
    ELSE m

\* A stale-edge loop that deletes whatever is live, declared or not.
DropStaleAll(m, r) ==
    [m EXCEPT !.defs[r] = NoDef,
              !.calls = @ \o <<Call("warning_stale", r),
                               Call("delete_edge_definition", r)>>]

\* A stale-edge loop that also purges the edge collection.
DropStalePurge(m, r) ==
    IF r \notin Declared
    THEN [m EXCEPT !.defs[r] = NoDef,
                   !.colls[r] = "absent",
                   !.calls = @ \o <<Call("warning_stale", r),
                                    Call("delete_edge_definition", r)>>]
    ELSE m

\* update_graph's last loop body: a live edge definition without a declared
\* relation is logged and deleted from the graph (its collections are kept).
DropStale(m, r) ==
    IF r \notin Declared
    THEN [m EXCEPT !.defs[r] = NoDef,
                   !.calls = @ \o <<Call("warning_stale", r),
                                    Call("delete_edge_definition", r)>>]
    ELSE m

Machine == [defs |-> edgeDefs, colls |-> colls, calls |-> <<>>]

UpdateGraphFrom(m0) ==
    LET existing == {c \in CollNames : m0.colls[c] # "absent"}
        existing_edges == m0.defs
        live == SetToSeq({r \in EdgeNames : existing_edges[r] # NoDef}, EdgeOrder)
        m1 == FoldSeq(LAMBDA m, c : EnsureVertex(m, existing, c), m0,
                      SetToSeq(DeclVertices, NameOrder))
        m2 == FoldSeq(LAMBDA m, c : EnsureEdge(m, existing, c), m1, DeclRels)
        m3 == FoldSeq(LAMBDA m, r : SyncRelation(m, existing_edges, r), m2, DeclRels)
    IN  FoldSeq(DropStale, m3, live)

\* create_graph up to the client's create_graph call.
CreateGraphColls(m0, ignore_collections) ==
    LET Wanted(seq) == SelectSeq(seq, LAMBDA c : c \notin ignore_collections)
        m1 == FoldSeq(TryCreate, m0, Wanted(SetToSeq(DeclVertices, NameOrder)))
    IN  FoldSeq(TryCreate, m1, Wanted(DeclRels))

\* The ignore_collections lists the callers pass; none by default.
IgnoreLists == {{}, {"A"}, {"A", "r1"}}
NoKwargs == [ignore_collections |-> {}, drop_collections |-> TRUE, db_objects |-> <<>>]

Snapshot == [graph |-> graphExists, defs |-> edgeDefs, colls |-> colls]

\* The body of update_graph: what it does to the database, and its calls.
UpdateGraphBody ==
    /\ LET m == UpdateGraphFrom(Machine)
       IN  /\ edgeDefs' = m.defs
           /\ colls' = m.colls
           /\ calls' = m.calls
    /\ graphExists' = graphExists
    /\ syncRun' = IF syncRun < 2 THEN syncRun + 1 ELSE 2

\* The body of create_graph: the collections, then the client's create_graph,
\* which raises when the graph exists.
CreateGraphBody(ignore_collections) ==
    /\ LET m == CreateGraphColls(Machine, ignore_collections)
       IN  /\ colls' = IF graphExists THEN m.colls
                       ELSE AutoCreate(m.colls,
                                UNION {ShapeColls(r, decl[r]) : r \in Declared})
           /\ edgeDefs' = IF graphExists THEN edgeDefs
                          ELSE [r \in EdgeNames |->
                                  IF r \in Declared THEN DbStore(decl[r]) ELSE NoDef]
           /\ calls' = Append(m.calls, Call(IF graphExists THEN "create_graph_raised"
                                            ELSE "create_graph", "g"))
    /\ graphExists' = TRUE
    /\ syncRun' = IF graphExists THEN 0 ELSE IF syncRun < 2 THEN syncRun + 1 ELSE 2

\* update_graph(graph_object) on an existing graph.
UpdateGraph ==
    /\ graphExists
    /\ UpdateGraphBody
    /\ pre' = Snapshot
    /\ lastOp' = "update_graph"
    /\ kwargs' = NoKwargs
    /\ UNCHANGED <<decl, dedup, persVars, queryVars, raceVars>>

\* create_graph(graph_object, ignore_collections=...).
CreateGraph(ignore_collections) ==
    /\ CreateGraphBody(ignore_collections)
    /\ pre' = Snapshot
    /\ lastOp' = "create_graph"
    /\ kwargs' = [NoKwargs EXCEPT !.ignore_collections = ignore_collections]
    /\ UNCHANGED <<decl, dedup, persVars, queryVars, raceVars>>

\* create_all([graph class]): create the graph when _get_graph_info finds
\* none, else update it.
CreateAll ==
    /\ IF graphExists THEN UpdateGraphBody ELSE CreateGraphBody({})
    /\ pre' = Snapshot
    /\ lastOp' = "create_all"
    /\ kwargs' = [NoKwargs EXCEPT !.db_objects = <<"g">>]
    /\ UNCHANGED <<decl, dedup, persVars, queryVars, raceVars>>

\* The classes create_all is handed: the graph class g, vertex classes and
\* relation classes, and the direct bases (obj.__bases__) of each.
Bases(obj) ==
    CASE obj = "g" -> {"Graph"}
      [] obj \in EdgeNames \cup {"T"} -> {"Relation"}
      [] OTHER -> {"Collection"}
\* The db_objects lists the callers pass, without repeated classes.
DbObjectLists == {<<"g">>, <<"S", "g">>, <<"g", "T", "S">>, <<"T", "A">>, <<"S">>}

\* create_all's loop over the graph classes: create_graph when
\* _get_graph_info finds no graph, update_graph otherwise.
GraphPhase(m0) ==
    IF graphExists THEN UpdateGraphFrom(m0)
    ELSE LET m == CreateGraphColls(m0, {})
         IN  [defs |-> [r \in EdgeNames |->
                          IF r \in Declared THEN DbStore(decl[r]) ELSE NoDef],
              colls |-> AutoCreate(m.colls,
                            UNION {ShapeColls(r, decl[r]) : r \in Declared}),
              calls |-> Append(m.calls, Call("create_graph", "g"))]

\* create_all's loop body over db_objects: a class with Collection among its
\* direct bases is created unless its name is in exclude_collections.
Standalone(m, exclude_collections, obj) ==
    IF "Collection" \in Bases(obj)
    THEN IF obj \notin exclude_collections
         THEN [m EXCEPT !.colls = CreateCollection(@, obj),
                        !.calls = @ \o <<Call("info_creating_collection", obj),
                                         Call("create_collection", obj)>>]
         ELSE [m EXCEPT !.calls = Append(@, Call("debug_already_exists", obj))]
    ELSE m

\* create_all(db_objects)
CreateAllFrom(m0, db_objects) ==
    LET m1 == IF "g" \in Range(db_objects) THEN GraphPhase(m0) ELSE m0
        exclude_collections == {c \in CollNames : m1.colls[c] # "absent"}
    IN  FoldSeq(LAMBDA m, obj : Standalone(m, exclude_collections, obj), m1, db_objects)

CreateAllObjects(db_objects) ==
    /\ LET m == CreateAllFrom(Machine, db_objects)
       IN  /\ edgeDefs' = m.defs
           /\ colls' = m.colls
           /\ calls' = m.calls
    /\ graphExists' = (graphExists \/ "g" \in Range(db_objects))
    /\ syncRun' = IF "g" \notin Range(db_objects) THEN 0
                  ELSE IF syncRun < 2 THEN syncRun + 1 ELSE 2
    /\ pre' = Snapshot
    /\ lastOp' = "create_all"
    /\ kwargs' = [NoKwargs EXCEPT !.db_objects = db_objects]
    /\ UNCHANGED <<decl, dedup, persVars, queryVars, raceVars>>

\* drop_graph(graph_object, drop_collections, ignore_collections=...): the
\* client's delete_graph with ignore_missing=True; the keyword arguments are
\* accepted and never read.
DropGraph(drop_collections, ignore_collections) ==
    /\ LET members == UNION {ShapeColls(r, edgeDefs[r]) : r \in {x \in EdgeNames : edgeDefs[x] # NoDef}}
       IN  colls' = IF graphExists /\ drop_collections
                    THEN [c \in CollNames |-> IF c \in members THEN "absent" ELSE colls[c]]
                    ELSE colls
    /\ graphExists' = FALSE
    /\ edgeDefs' = [r \in EdgeNames |-> NoDef]
    /\ calls' = <<Call("delete_graph", "g")>>
    /\ pre' = Snapshot
    /\ lastOp' = "drop_graph"
    /\ syncRun' = 0
    /\ kwargs' = [NoKwargs EXCEPT !.ignore_collections = ignore_collections,
                                  !.drop_collections = drop_collections]
    /\ UNCHANGED <<decl, dedup, persVars, queryVars, raceVars>>

InitSync ==
    /\ decl \in [EdgeNames -> Shapes \cup {NoDef}]
    /\ decl["r1"] # NoDef
    /\ decl["r2"] \in {NoDef, [from |-> <<"A">>, to |-> <<"B">>]}
    /\ dedup \in BOOLEAN
    /\ graphExists \in BOOLEAN
    /\ edgeDefs \in [EdgeNames -> Shapes \cup {NoDef}]
    /\ ~graphExists => edgeDefs = [r \in EdgeNames |-> NoDef]
    /\ edgeDefs["r2"] \in {NoDef, [from |-> <<"A">>, to |-> <<"B">>]}
    /\ dedup => \A r \in EdgeNames : edgeDefs[r] = DbStore(edgeDefs[r])
    /\ colls = [c \in CollNames |->
                 IF \E r \in EdgeNames : edgeDefs[r] # NoDef /\ c \in ShapeColls(r, edgeDefs[r])
                 THEN "indexed" ELSE "absent"]
    /\ calls = <<>>
    /\ pre = Snapshot
    /\ lastOp = "init"
    /\ syncRun = 0
    /\ kwargs = NoKwargs

\* A database holding one declared graph, in any state, and the standalone
\* collections or not.
InitCreateAll ==
    /\ decl = [r \in EdgeNames |-> IF r = "r1" THEN [from |-> <<"A">>, to |-> <<"B">>] ELSE NoDef]
    /\ dedup \in BOOLEAN
    /\ graphExists \in BOOLEAN
    /\ edgeDefs \in [EdgeNames -> {NoDef, [from |-> <<"A">>, to |-> <<"B">>],
                                   [from |-> <<"B">>, to |-> <<"B">>]}]
    /\ ~graphExists => edgeDefs = [r \in EdgeNames |-> NoDef]
    /\ colls \in [CollNames -> {"absent", "indexed"}]
    /\ \A c \in CollNames \ StandaloneNames :
           colls[c] = "indexed" <=>
               \E r \in EdgeNames : edgeDefs[r] # NoDef /\ c \in ShapeColls(r, edgeDefs[r])
    /\ calls = <<>>
    /\ pre = Snapshot
    /\ lastOp = "init"
    /\ syncRun = 0
    /\ kwargs = NoKwargs

NextCreateAll ==
    \/ \E l \in DbObjectLists : CreateAllObjects(l)
    \/ \E dc \in BOOLEAN, ic \in IgnoreLists : DropGraph(dc, ic)

\* ------------------------------------------- concurrent create_all passes

\* Two callers run create_all([graph class]) on the same database; a step is
\* one call of the database client, or one loop round that makes none.
Passes == {1, 2}
\* The collections of the graph in the order both collection loops take
\* them: vertices, then edges.
GraphColls == SetToSeq(DeclVertices, NameOrder) \o DeclRels

Goto(p, at, idx) == pc' = [pc EXCEPT ![p] = [at |-> at, idx |-> idx, raised |-> ""]]
\* The next round of a loop over seq, or the step after the loop.
Advance(p, seq, after) ==
    IF pc[p].idx < Len(seq) THEN Goto(p, pc[p].at, pc[p].idx + 1) ELSE Goto(p, after, 1)
\* An exception no handler catches leaves create_all.
Abort(p, call) == pc' = [pc EXCEPT ![p] = [at |-> "aborted", idx |-> 0, raised |-> call]]
RaceFrame == UNCHANGED <<decl, dedup, calls, pre, lastOp, syncRun, kwargs, persVars, queryVars>>

\* _get_graph_info
GetGraphInfo(p) ==
    /\ pc[p].at = "start"
    /\ view' = [view EXCEPT ![p].graph_info = graphExists]
    /\ Goto(p, IF graphExists THEN "list_collections" ELSE "create_collections", 1)
    /\ UNCHANGED <<graphExists, edgeDefs, colls>>
    /\ RaceFrame

\* One round of create_graph's collection loops: the error of an existing
\* collection is caught.
CreateGraphCollection(p) ==
    /\ pc[p].at = "create_collections"
    /\ LET c == GraphColls[pc[p].idx]
       IN  colls' = IF CreateCollectionRaises(colls, c) THEN colls
                    ELSE CreateCollection(colls, c)
    /\ Advance(p, GraphColls, "create_graph")
    /\ UNCHANGED <<graphExists, edgeDefs, view>>
    /\ RaceFrame

\* create_graph's last line: the client's create_graph, outside any try.
CreateGraphCall(p) ==
    /\ pc[p].at = "create_graph"
    /\ IF graphExists
       THEN /\ Abort(p, "create_graph")
            /\ UNCHANGED <<graphExists, edgeDefs, colls>>
       ELSE /\ graphExists' = TRUE
            /\ edgeDefs' = [r \in EdgeNames |->
                              IF r \in Declared THEN DbStore(decl[r]) ELSE NoDef]
            /\ colls' = AutoCreate(colls, UNION {ShapeColls(r, decl[r]) : r \in Declared})
            /\ Goto(p, "done", 0)
    /\ UNCHANGED view
    /\ RaceFrame

\* update_graph reads the existing collection names.
ListCollections(p) ==
    /\ pc[p].at = "list_collections"
    /\ view' = [view EXCEPT ![p].existing = {c \in CollNames : colls[c] # "absent"}]
    /\ Goto(p, "ensure_collections", 1)
    /\ UNCHANGED <<graphExists, edgeDefs, colls>>
    /\ RaceFrame

\* One round of update_graph's collection loops, inside try/except: a vertex
\* collection not among the names read is created; for an edge collection
\* the call raises TypeError before it reaches the client.
EnsureCollection(p) ==
    /\ pc[p].at = "ensure_collections"
    /\ LET c == GraphColls[pc[p].idx]
       IN  colls' = IF c \in view[p].existing \/ c \in Declared
                       \/ CreateCollectionRaises(colls, c)
                    THEN colls
                    ELSE CreateCollection(colls, c)
    /\ Advance(p, GraphColls, "edge_definitions")
    /\ UNCHANGED <<graphExists, edgeDefs, view>>
    /\ RaceFrame

\* update_graph reads the live edge definitions.
ReadEdgeDefinitions(p) ==
    /\ pc[p].at = "edge_definitions"
    /\ view' = [view EXCEPT ![p].existing_edges = edgeDefs]
    /\ Goto(p, "relations", 1)
    /\ UNCHANGED <<graphExists, edgeDefs, colls>>
    /\ RaceFrame

\* One round of update_graph's relation loop, outside any try: create or
\* replace the edge definition as the definitions read say.
SyncRelationCall(p) ==
    /\ pc[p].at = "relations"
    /\ LET r == DeclRels[pc[p].idx]
           ee == view[p].existing_edges[r]
           store == /\ edgeDefs' = [edgeDefs EXCEPT ![r] = DbStore(decl[r])]
                    /\ colls' = AutoCreate(colls, ShapeColls(r, decl[r]))
                    /\ Advance(p, DeclRels, "stale")
           raise(call) == /\ Abort(p, call)
                          /\ UNCHANGED <<edgeDefs, colls>>
       IN  IF ee = NoDef
           THEN IF edgeDefs[r] # NoDef THEN raise("create_edge_definition") ELSE store
           ELSE IF ~IsSameEdge(decl[r], ee)
           THEN IF edgeDefs[r] = NoDef THEN raise("replace_edge_definition") ELSE store
           ELSE /\ Advance(p, DeclRels, "stale")
                /\ UNCHANGED <<edgeDefs, colls>>
    /\ UNCHANGED <<graphExists, view>>
    /\ RaceFrame

\* One round of update_graph's last loop, outside any try: delete an edge
\* definition that was read and has no declared relation.
DropStaleCall(p) ==
    /\ pc[p].at = "stale"
    /\ LET r == EdgeOrder[pc[p].idx]
       IN  IF view[p].existing_edges[r] # NoDef /\ r \notin Declared
           THEN IF edgeDefs[r] = NoDef
                THEN /\ Abort(p, "delete_edge_definition")
                     /\ UNCHANGED edgeDefs
                ELSE /\ edgeDefs' = [edgeDefs EXCEPT ![r] = NoDef]
                     /\ Advance(p, EdgeOrder, "done")
           ELSE /\ Advance(p, EdgeOrder, "done")
                /\ UNCHANGED edgeDefs
    /\ UNCHANGED <<graphExists, colls, view>>
    /\ RaceFrame

NoView == [graph_info |-> FALSE, existing |-> {},
           existing_edges |-> [r \in EdgeNames |-> NoDef]]
\* No concurrent pass under way, for the other specifications.
RaceIdle ==
    /\ pc = [p \in Passes |-> [at |-> "start", idx |-> 0, raised |-> ""]]
    /\ view = [p \in Passes |-> NoView]

\* Both passes about to start, over a database in any state.
InitRace ==
    /\ decl \in [EdgeNames -> {NoDef, [from |-> <<"A">>, to |-> <<"B">>]}]
    /\ decl["r1"] # NoDef
    /\ dedup \in BOOLEAN
    /\ graphExists \in BOOLEAN
    /\ edgeDefs \in [EdgeNames -> {NoDef, [from |-> <<"A">>, to |-> <<"B">>],
                                   [from |-> <<"B">>, to |-> <<"B">>]}]
    /\ ~graphExists => edgeDefs = [r \in EdgeNames |-> NoDef]
    /\ colls \in [CollNames -> {"absent", "indexed"}]
    /\ \A c \in StandaloneNames : colls[c] = "absent"
    /\ \A r \in EdgeNames : edgeDefs[r] # NoDef =>
           \A c \in ShapeColls(r, edgeDefs[r]) : colls[c] = "indexed"
    /\ calls = <<>>
    /\ pre = Snapshot
    /\ lastOp = "init"
    /\ syncRun = 0
    /\ kwargs = NoKwargs
    /\ RaceIdle

NextRace ==
    \E p \in Passes :
        \/ GetGraphInfo(p)
        \/ CreateGraphCollection(p)
        \/ CreateGraphCall(p)
        \/ ListCollections(p)
        \/ EnsureCollection(p)
        \/ ReadEdgeDefinitions(p)
        \/ SyncRelationCall(p)
        \/ DropStaleCall(p)

NextSync ==
    \/ UpdateGraph
    \/ \E ic \in IgnoreLists : CreateGraph(ic)
    \/ CreateAll
    \/ \E dc \in BOOLEAN, ic \in IgnoreLists : DropGraph(dc, ic)


\* ---------------------------------------------------------- persister: data

None == "null"
Entities == {"e1", "e2", "e3"}
\* entity.__collection__
CollOf == [e \in Entities |-> IF e = "e2" THEN "c2" ELSE "c1"]
DocColls == {CollOf[e] : e \in Entities}
\* The declared data field of each collection class, and every field's alias.
DataField == [c \in DocColls |-> IF c = "c1" THEN "name" ELSE "nick"]
AliasOf(f) ==
    CASE f = "key_" -> "_key"
      [] f = "rev_" -> "_rev"
      [] f = "nick" -> "nickname"
      [] OTHER -> f
\* Keys a collection's documents can have, revisions the server hands out.
KeysOf == [c \in DocColls |-> IF c = "c1" THEN {"k1", "k2"} ELSE {"k3"}]
Revs == {"ra", "rb"}
\* The value an entity holds in its data field.
ValOf(e) == "value of " \o e

Perms(S) == {q \in [1..Cardinality(S) -> S] : \A i, j \in DOMAIN q : q[i] = q[j] => i = j}
\* Entity lists handed to the bulk calls: distinct entities, in any order.
EntityLists == UNION {Perms(S) : S \in (SUBSET Entities) \ {{}}}

\* The order in which a collection hands out generated keys.
KeyOrder == [c \in DocColls |-> IF c = "c1" THEN <<"k1", "k2">> ELSE <<"k3">>]

\* What the database client answers to one call: whether it raises, and the
\* revision it assigns.
Outcomes == [raises : BOOLEAN, rev : Revs]

Event(kind, name, es, coll, data, res) ==
    [kind |-> kind, name |-> name, ents |-> es, coll |-> coll, data |-> data, res |-> res]
Hook(name, e) == Event("hook", name, <<e>>, "", <<>>, <<>>)
Attach(e) == Event("attach", "_db", <<e>>, "", <<>>, <<>>)
ClientCall(name, es, coll, data, res) == Event("call", name, es, coll, data, res)
Raised(name) == Event("raise", name, <<>>, "", <<>>, <<>>)
Log(st, ev) == [st EXCEPT !.ev = Append(@, ev)]

\* ------------------------------------------------------- the entity model

\* entity.model_dump(mode="json", by_alias=True)
ModelDump(x, e) ==
    [a \in {"_key", "_rev", AliasOf(DataField[CollOf[e]])} |->
        IF a = "_key" THEN x.key ELSE IF a = "_rev" THEN x.rev ELSE ValOf(e)]

\* setattr(entity, field, value) for an identity field: the entity records
\* the field as mutated.
SetAttr(x, f, v) ==
    IF f = "key_" THEN [x EXCEPT !.key = v, !.dirty = @ \cup {f}]
    ELSE [x EXCEPT !.rev = v, !.dirty = @ \cup {f}]

Restrict(d, K) == [k \in K |-> d[k]]

\* --------------------------------------------------------------- persister

\* A clean-up that forgets the revision.
PreProcessKeyOnly(data) ==
    Restrict(data, {k \in DOMAIN data : ~(k = "_key" /\ data[k] = None)})

\* _entity_pre_process
EntityPreProcess(data) ==
    Restrict(data, {k \in DOMAIN data : ~(k \in {"_key", "_rev"} /\ data[k] = None)})

\* One round of _entity_post_process's loop.
PostProcessField(x, f, result) ==
    IF AliasOf(f) \in DOMAIN result /\ result[AliasOf(f)] # None
    THEN LET y == SetAttr(x, f, result[AliasOf(f)])
         IN  [y EXCEPT !.dirty = @ \ {f}]
    ELSE x

\* A write-back that leaves the fields it set in the dirty set.
PostProcessNoRemove(x, result) ==
    LET set(y, f) == IF result[AliasOf(f)] # None THEN SetAttr(y, f, result[AliasOf(f)]) ELSE y
    IN  set(set(x, "key_"), "rev_")

\* A write-back of the key alone.
PostProcessKeyOnly(x, result) == PostProcessField(x, "key_", result)

\* _entity_post_process
EntityPostProcess(x, result) ==
    PostProcessField(PostProcessField(x, "key_", result), "rev_", result)

\* The only_dirty payload: the dumped entries whose key is "_key" or is in
\* the dirty set.
DirtyData(x, e) ==
    LET d == ModelDump(x, e)
    IN  Restrict(d, {k \in DOMAIN d : k = "_key" \/ k \in x.dirty})

Result(k, r) == ("_key" :> k) @@ ("_rev" :> r)
\* The document metadata a successful insert returns.
InsertResult(data, coll, out, used) ==
    Result(IF "_key" \in DOMAIN data THEN data["_key"]
           ELSE Head(SelectSeq(KeyOrder[coll], LAMBDA k : k \notin used)),
           out.rev)

\* The keys the entities of a collection hold: the server generates none of
\* them again.
KeysIn(es, coll) == {es[e].key : e \in {x \in Entities : CollOf[x] = coll}} \ {None}

RECURSIVE InsertManyResult(_, _, _, _)
\* The positionally correlated result list of a successful insert_many.
InsertManyResult(data, coll, out, used) ==
    IF data = <<>> THEN <<>>
    ELSE LET r == InsertResult(Head(data), coll, out, used)
         IN  <<r>> \o InsertManyResult(Tail(data), coll, out, used \cup {r["_key"]})

\* The result list of a successful update_many.
UpdateManyResult(data, out) ==
    [i \in DOMAIN data |-> Result(data[i]["_key"], out.rev)]

\* An update that writes the identity back and leaves the dirty set alone.
UpdateWriteBackNoClear(x, res) == EntityPostProcess(x, res)

\* update, after the client's update returned: entity._dirty.clear(), then
\* _entity_post_process.
UpdateWriteBack(x, res) == EntityPostProcess([x EXCEPT !.dirty = {}], res)

\* An update that clears the dirty set before it calls the client.
UpdateFromClearFirst(st, e, only_dirty, out) ==
    IF only_dirty /\ st.ents[e].dirty = {} THEN st
    ELSE
    LET s1 == Log(st, Hook("pre_update", e))
        raw == IF only_dirty THEN DirtyData(s1.ents[e], e) ELSE ModelDump(s1.ents[e], e)
        s2 == [Log(s1, Attach(e)) EXCEPT !.ents[e].dirty = {}]
        data == EntityPreProcess(raw)
    IN  IF out.raises \/ "_key" \notin DOMAIN data
        THEN Log(Log(s2, ClientCall("update", <<e>>, CollOf[e], <<data>>, <<>>)),
                 Raised("update"))
        ELSE LET res == Result(data["_key"], out.rev)
                 s3 == Log(s2, ClientCall("update", <<e>>, CollOf[e], <<data>>, <<res>>))
                 s4 == [s3 EXCEPT !.ents[e] = UpdateWriteBack(@, res)]
             IN  Log(s4, Hook("post_update", e))

\* Database.update
UpdateFrom(st, e, only_dirty, out) ==
    IF only_dirty /\ st.ents[e].dirty = {} THEN st
    ELSE
    LET s1 == Log(st, Hook("pre_update", e))
        raw == IF only_dirty THEN DirtyData(s1.ents[e], e) ELSE ModelDump(s1.ents[e], e)
        s2 == Log(s1, Attach(e))
        data == EntityPreProcess(raw)
    IN  IF out.raises \/ "_key" \notin DOMAIN data
        THEN Log(Log(s2, ClientCall("update", <<e>>, CollOf[e], <<data>>, <<>>)),
                 Raised("update"))
        ELSE LET res == Result(data["_key"], out.rev)
                 s3 == Log(s2, ClientCall("update", <<e>>, CollOf[e], <<data>>, <<res>>))
                 s4 == [s3 EXCEPT !.ents[e] = UpdateWriteBack(@, res)]
             IN  Log(s4, Hook("post_update", e))

\* Database.add from the serialization on (the insert path).
InsertFrom(st, e, out) ==
    LET data == EntityPreProcess(ModelDump(st.ents[e], e))
        s1 == Log(Log(st, Hook("pre_add", e)), Attach(e))
    IN  IF out.raises
        THEN Log(Log(s1, ClientCall("insert", <<e>>, CollOf[e], <<data>>, <<>>)),
                 Raised("insert"))
        ELSE LET res == InsertResult(data, CollOf[e], out, KeysIn(st.ents, CollOf[e]))
                 s2 == Log(s1, ClientCall("insert", <<e>>, CollOf[e], <<data>>, <<res>>))
                 s3 == [s2 EXCEPT !.ents[e] = EntityPostProcess(@, res)]
                 s4 == [s3 EXCEPT !.ents[e].dirty = {}]
             IN  Log(s4, Hook("post_add", e))

\* An add that inserts whatever if_present says.
AddFromAlwaysInsert(st, e, if_present, exists, out) == InsertFrom(st, e, out)

\* Database.add
AddFrom(st, e, if_present, exists, out) ==
    IF if_present # None /\ st.ents[e].key # None /\ exists
    THEN IF if_present = "ignore" THEN Log(st, Attach(e))
         ELSE UpdateFrom(st, e, FALSE, out)
    ELSE InsertFrom(st, e, out)

\* Database.delete
DeleteFrom(st, e, out) ==
    LET s1 == Log(st, Hook("pre_delete", e))
        s2 == Log(s1, ClientCall("delete", <<e>>, CollOf[e], <<st.ents[e].key>>, <<>>))
    IN  IF out.raises THEN Log(s2, Raised("delete"))
        ELSE Log(s2, Hook("post_delete", e))

PState == [ents |-> ents, ev |-> <<>>]
PCall(op, es, only_dirty, if_present, exists) ==
    [op |-> op, ents |-> es, only_dirty |-> only_dirty, if_present |-> if_present,
     exists |-> exists]

Idle == PCall("idle", <<>>, FALSE, None, FALSE)
NoStreak == [n |-> 0, e |-> ""]

Commit(st, call) ==
    /\ pop = Idle
    /\ ents' = st.ents
    /\ pev' = st.ev
    /\ pop' = call
    /\ ppre' = ents

Failed(ev) == ev # <<>> /\ ev[Len(ev)].kind = "raise"

Add(e, if_present, exists, out) ==
    /\ Commit(AddFrom(PState, e, if_present, exists, out),
              PCall("add", <<e>>, FALSE, if_present, exists))
    /\ streak' = NoStreak
    /\ UNCHANGED <<syncVars, queryVars, raceVars>>

Update(e, only_dirty, out) ==
    /\ LET st == UpdateFrom(PState, e, only_dirty, out)
       IN  /\ Commit(st, PCall("update", <<e>>, only_dirty, None, FALSE))
           /\ streak' =
                IF ~only_dirty \/ Failed(st.ev) THEN NoStreak
                ELSE IF streak.n >= 1 /\ streak.e = e THEN [n |-> 2, e |-> e]
                ELSE IF ents[e].dirty # {} THEN [n |-> 1, e |-> e] ELSE NoStreak
    /\ UNCHANGED <<syncVars, queryVars, raceVars>>

Delete(e, out) ==
    /\ Commit(DeleteFrom(PState, e, out), PCall("delete", <<e>>, FALSE, None, FALSE))
    /\ streak' = NoStreak
    /\ UNCHANGED <<syncVars, queryVars, raceVars>>

\* The application assigns the entity's data field.
Mutate(e) ==
    /\ pop = Idle
    /\ ents' = [ents EXCEPT ![e].dirty = @ \cup {DataField[CollOf[e]]}]
    /\ pev' = <<>>
    /\ pop' = PCall("mutate", <<e>>, FALSE, None, FALSE)
    /\ ppre' = ents
    /\ streak' = NoStreak
    /\ UNCHANGED <<syncVars, queryVars, raceVars>>

\* collections[entity.__collection__]: append the entity and its payload to
\* its collection's group, a new group going last.
AddToGroup(groups, coll, e, data) ==
    IF \E i \in DOMAIN groups : groups[i].coll = coll
    THEN [i \in DOMAIN groups |->
            IF groups[i].coll = coll
            THEN [groups[i] EXCEPT !.ents = Append(@, e), !.data = Append(@, data)]
            ELSE groups[i]]
    ELSE Append(groups, [coll |-> coll, ents |-> <<e>>, data |-> <<data>>])

\* bulk_add's first loop body.  halt: the call has returned or raised.
BulkAddCollect(b, e, only_dirty) ==
    IF b.halt THEN b
    ELSE IF only_dirty /\ b.ents[e].dirty = {} THEN [b EXCEPT !.halt = TRUE]
    ELSE LET raw == IF only_dirty THEN DirtyData(b.ents[e], e)
                    ELSE ModelDump(b.ents[e], e)
             data == EntityPreProcess(raw)
             b1 == Log(b, Hook("pre_update", e))
             b2 == [b1 EXCEPT !.groups = AddToGroup(@, CollOf[e], e, data)]
             b3 == Log(b2, Attach(e))
         IN  [b3 EXCEPT !.ents[e].dirty = {}]

\* bulk_update's first loop body.
BulkUpdateCollect(b, e, only_dirty) ==
    IF b.halt THEN b
    ELSE IF only_dirty /\ b.ents[e].dirty = {} THEN [b EXCEPT !.halt = TRUE]
    ELSE LET b1 == Log(b, Hook("pre_update", e))
             raw == IF only_dirty THEN DirtyData(b1.ents[e], e)
                    ELSE ModelDump(b1.ents[e], e)
             data == EntityPreProcess(raw)
             b2 == [b1 EXCEPT !.groups = AddToGroup(@, CollOf[e], e, data)]
         IN  Log(b2, Attach(e))

\* A loop that hands every entity of the group the first result.
PostBatchFirstResult(b, g, res, num, hook) ==
    LET e == g.ents[num]
        b1 == [b EXCEPT !.ents[e].dirty = {}]
        b2 == [b1 EXCEPT !.ents[e] = EntityPostProcess(@, res[1])]
    IN  Log(b2, Hook(hook, e))

\* The body of the loop over a group's entities after its batched call:
\* entity number num takes res[num].
PostBatchEntity(b, g, res, num, hook) ==
    LET e == g.ents[num]
        b1 == [b EXCEPT !.ents[e].dirty = {}]
        b2 == [b1 EXCEPT !.ents[e] = EntityPostProcess(@, res[num])]
    IN  Log(b2, Hook(hook, e))

RECURSIVE PostBatch(_, _, _, _, _)
PostBatch(b, g, res, num, hook) ==
    IF num > Len(g.ents) THEN b
    ELSE PostBatch(PostBatchEntity(b, g, res, num, hook), g, res, num + 1, hook)

\* bulk_add's second loop body for group number idx; the client raises in
\* group failAt.
BulkAddFlush(b, idx, out, failAt) ==
    LET g == b.groups[idx]
    IN  IF b.halt THEN b
        ELSE IF idx = failAt
        THEN [Log(Log(b, ClientCall("insert_many", g.ents, g.coll, g.data, <<>>)),
                  Raised("insert_many")) EXCEPT !.halt = TRUE]
        ELSE LET res == InsertManyResult(g.data, g.coll, out, KeysIn(b.ents, g.coll))
                 b1 == Log(b, ClientCall("insert_many", g.ents, g.coll, g.data, res))
             IN  PostBatch(b1, g, res, 1, "post_add")

\* bulk_update's second loop body; update_many raises for a payload
\* without "_key".
BulkUpdateFlush(b, idx, out, failAt) ==
    LET g == b.groups[idx]
    IN  IF b.halt THEN b
        ELSE IF idx = failAt \/ \E i \in DOMAIN g.data : "_key" \notin DOMAIN g.data[i]
        THEN [Log(Log(b, ClientCall("update_many", g.ents, g.coll, g.data, <<>>)),
                  Raised("update_many")) EXCEPT !.halt = TRUE]
        ELSE LET res == UpdateManyResult(g.data, out)
                 b1 == Log(b, ClientCall("update_many", g.ents, g.coll, g.data, res))
             IN  PostBatch(b1, g, res, 1, "post_update")

RECURSIVE FlushAll(_, _, _, _, _)
FlushAll(Flush(_, _, _, _), b, idx, out, failAt) ==
    IF idx > Len(b.groups) THEN b
    ELSE FlushAll(Flush, Flush(b, idx, out, failAt), idx + 1, out, failAt)

BState == [ents |-> ents, ev |-> <<>>, groups |-> <<>>, halt |-> FALSE]

\* Database.bulk_add
BulkAddFrom(b0, entity_list, only_dirty, out, failAt) ==
    LET b1 == FoldSeq(LAMBDA b, e : BulkAddCollect(b, e, only_dirty), b0, entity_list)
    IN  FlushAll(BulkAddFlush, b1, 1, out, failAt)

\* Database.bulk_update
BulkUpdateFrom(b0, entity_list, only_dirty, out, failAt) ==
    LET b1 == FoldSeq(LAMBDA b, e : BulkUpdateCollect(b, e, only_dirty), b0, entity_list)
    IN  FlushAll(BulkUpdateFlush, b1, 1, out, failAt)

BulkAdd(entity_list, only_dirty, out, failAt) ==
    /\ Commit(BulkAddFrom(BState, entity_list, only_dirty, out, failAt),
              PCall("bulk_add", entity_list, only_dirty, None, FALSE))
    /\ streak' = NoStreak
    /\ UNCHANGED <<syncVars, queryVars, raceVars>>

BulkUpdate(entity_list, only_dirty, out, failAt) ==
    /\ Commit(BulkUpdateFrom(BState, entity_list, only_dirty, out, failAt),
              PCall("bulk_update", entity_list, only_dirty, None, FALSE))
    /\ streak' = NoStreak
    /\ UNCHANGED <<syncVars, queryVars, raceVars>>

\* The call has returned: the application goes on to its next call, and the
\* record of the last one is dropped.
Return ==
    /\ pop # Idle
    /\ pev' = <<>>
    /\ pop' = Idle
    /\ ppre' = ents
    /\ UNCHANGED <<ents, streak, syncVars, queryVars, raceVars>>

\* -------------------------------------------------------- query builder

\* Python values, with their type, as the builder receives and stores them.
PyInt(n) == [type |-> "int", int |-> n, str |-> ""]
PyStr(x) == [type |-> "str", int |-> 0, str |-> x]
PyNone == [type |-> "NoneType", int |-> 0, str |-> ""]
IsInstanceInt(v) == v.type = "int"
\* Python truth value: None, 0 and the empty string are false.
Truthy(v) == CASE v.type = "NoneType" -> FALSE
               [] v.type = "int" -> v.int # 0
               [] OTHER -> v.str # ""

\* The collection of the class the builder was created for.
QueryColl == "c1"
\* The arguments the callers pass: filter conditions with their bind
\* variables, sort columns, and the positional arguments of limit.
FilterInputs ==
    { [condition |-> "age > 18", kwargs |-> <<>>],
      [condition |-> "name == @v", kwargs |-> [k \in {"v"} |-> "x"]],
      [condition |-> "ref IN @@collection", kwargs |-> [k \in {"@collection"} |-> "c2"]] }
SortInputs == {"name", "age DESC"}
LimitInputs ==
    { <<PyInt(0)>>, <<PyInt(2)>>, <<PyInt(5), PyInt(10)>>,
      <<PyInt(-1)>>, <<PyInt(2), PyInt(-1)>>, <<PyStr("2")>> }

QCall(op, args, raised) == [op |-> op, args |-> args, raised |-> raised]
QSnapshot == [filter_conditions |-> filter_conditions, sort_columns |-> sort_columns,
              limit |-> limit, limit_start_record |-> limit_start_record,
              bind_vars |-> bind_vars]
NoQuery == [query |-> <<>>, bind_vars |-> <<>>]
\* dict.update
DictUpdate(d, kw) ==
    [k \in DOMAIN d \cup DOMAIN kw |-> IF k \in DOMAIN kw THEN kw[k] ELSE d[k]]

\* A builder call that returns: the history it leaves.
QReturn(call) ==
    /\ qhist' = Append(qhist, call)
    /\ qpre' = QSnapshot
    /\ executed' = NoQuery
    /\ UNCHANGED <<syncVars, persVars, raceVars>>

JoinerAlwaysAnd(conds, useOr) == IF Len(conds) > 0 THEN "AND" ELSE None
\* The joiner filter gives the condition it appends.
Joiner(conds, useOr) ==
    IF Len(conds) > 0 THEN (IF useOr THEN "OR" ELSE "AND") ELSE None

\* filter(condition, _or, **kwargs)
Filter(condition, useOr, kw) ==
    /\ Len(qhist) < MaxCalls
    /\ filter_conditions' = Append(filter_conditions,
           [condition |-> condition, joiner |-> Joiner(filter_conditions, useOr)])
    /\ bind_vars' = DictUpdate(bind_vars, kw)
    /\ UNCHANGED <<sort_columns, limit, limit_start_record>>
    /\ QReturn(QCall("filter", [condition |-> condition, useOr |-> useOr, kwargs |-> kw], FALSE))

\* sort(col_name)
Sort(col_name) ==
    /\ Len(qhist) < MaxCalls
    /\ sort_columns' = Append(sort_columns, col_name)
    /\ UNCHANGED <<filter_conditions, limit, limit_start_record, bind_vars>>
    /\ QReturn(QCall("sort", col_name, FALSE))

StartFromKept(args) == IF Len(args) >= 2 THEN args[2] ELSE limit_start_record
\* limit's second parameter, 0 when the caller omits it.
StartFrom(args) == IF Len(args) >= 2 THEN args[2] ELSE PyInt(0)

\* limit(num_records, start_from=0): the two assertions, then the two stores.
Limit(args) ==
    LET num_records == args[1]
        start_from == StartFrom(args)
        raises == ~IsInstanceInt(num_records) \/ ~IsInstanceInt(start_from)
    IN  /\ Len(qhist) < MaxCalls
        /\ IF raises
           THEN UNCHANGED <<limit, limit_start_record>>
           ELSE /\ limit' = num_records
                /\ limit_start_record' = start_from
        /\ UNCHANGED <<filter_conditions, sort_columns, bind_vars>>
        /\ QReturn(QCall("limit", args, raises))

\* The compiled text as its tokens: a keyword or punctuation, 'rec.' followed
\* by an expression, a formatted number.
Kw(x) == [t |-> "kw", s |-> x, n |-> 0]
Rec(x) == [t |-> "rec", s |-> x, n |-> 0]
Num(v) == [t |-> "num", s |-> "", n |-> v.int]

\* One line per filter condition: FILTER or the joiner, then the condition.
FilterLines ==
    [i \in 1..(2 * Len(filter_conditions)) |->
        IF i % 2 = 1
        THEN LET fc == filter_conditions[(i + 1) \div 2]
             IN  Kw(IF fc.joiner = None THEN "FILTER" ELSE fc.joiner)
        ELSE Rec(filter_conditions[i \div 2].condition)]

\* SORT and each column followed by a comma, the last comma cut off.
SortClause ==
    IF sort_columns # <<>>
    THEN LET text == <<Kw("SORT")>> \o
                     [i \in 1..(2 * Len(sort_columns)) |->
                         IF i % 2 = 1 THEN Rec(sort_columns[(i + 1) \div 2]) ELSE Kw(",")]
         IN  SubSeq(text, 1, Len(text) - 1)
    ELSE <<>>

\* LIMIT start, count when _limit is true.
LimitClause ==
    IF Truthy(limit)
    THEN <<Kw("LIMIT"), Num(limit_start_record), Kw(","), Num(limit)>>
    ELSE <<>>

MakeAqlLimitFirst == <<Kw("FOR rec IN @@collection")>> \o LimitClause \o FilterLines \o SortClause
\* _make_aql
MakeAql == <<Kw("FOR rec IN @@collection")>> \o FilterLines \o SortClause \o LimitClause

\* all(): compile, append the projection and execute with the bind variables.
All ==
    /\ executed' = [query |-> MakeAql \o <<Kw("RETURN rec")>>, bind_vars |-> bind_vars]
    /\ UNCHANGED <<filter_conditions, sort_columns, limit, limit_start_record, bind_vars,
                   qhist, qpre>>
    /\ UNCHANGED <<syncVars, persVars, raceVars>>

\* Query(CollectionClass, db)
InitQuery ==
    /\ bind_vars = [k \in {"@collection"} |-> QueryColl]
    /\ filter_conditions = <<>>
    /\ sort_columns = <<>>
    /\ limit = PyNone
    /\ limit_start_record = PyInt(0)
    /\ qhist = <<>>
    /\ qpre = QSnapshot
    /\ executed = NoQuery

\* No query builder in use, for the other specifications.
QueryIdle == InitQuery

NextQuery ==
    \/ \E f \in FilterInputs, useOr \in BOOLEAN : Filter(f.condition, useOr, f.kwargs)
    \/ \E c \in SortInputs : Sort(c)
    \/ \E args \in LimitInputs : Limit(args)
    \/ All

\* Entities as the application holds them: constructed with or without a
\* key of its own choosing, not yet mutated.
InitPersist ==
    /\ ents \in [Entities -> [key : {None, "k1", "k2", "k3"}, rev : {None}, dirty : {{}}]]
    /\ \A e \in Entities : ents[e].key \in KeysOf[CollOf[e]] \cup {None}
    /\ \A e, f \in Entities :
           e # f /\ CollOf[e] = CollOf[f] /\ ents[e].key # None => ents[e].key # ents[f].key
    /\ pev = <<>>
    /\ pop = Idle
    /\ ppre = ents
    /\ streak = NoStreak

\* The synchronizer at rest, for the persister's specification.
SyncIdle ==
    /\ decl = [r \in EdgeNames |-> IF r = "r1" THEN [from |-> <<"A">>, to |-> <<"B">>] ELSE NoDef]
    /\ dedup = TRUE
    /\ graphExists = FALSE
    /\ edgeDefs = [r \in EdgeNames |-> NoDef]
    /\ colls = [c \in CollNames |-> "absent"]
    /\ calls = <<>>
    /\ pre = Snapshot
    /\ lastOp = "init"
    /\ syncRun = 0
    /\ kwargs = NoKwargs

\* The persister at rest, for the synchronizer's specification.
PersistIdle ==
    /\ ents = [e \in Entities |-> [key |-> None, rev |-> None, dirty |-> {}]]
    /\ pev = <<>>
    /\ pop = Idle
    /\ ppre = ents
    /\ streak = NoStreak

Ok == {o \in Outcomes : ~o.raises}

NextPersist ==
    \/ Return
    \/ \E e \in Entities : Mutate(e)
    \/ \E e \in Entities, ip \in {None, "ignore", "update"}, ex \in BOOLEAN, out \in Outcomes :
           /\ (ip = None \/ ents[e].key = None) => ~ex
           /\ Add(e, ip, ex, out)
    \/ \E e \in Entities, od \in BOOLEAN, out \in Outcomes : Update(e, od, out)
    \/ \E e \in Entities, out \in Outcomes : Delete(e, out)
    \/ \E l \in EntityLists, od \in BOOLEAN, out \in Ok, failAt \in 0..Cardinality(DocColls) :
           BulkAdd(l, od, out, failAt)
    \/ \E l \in EntityLists, od \in BOOLEAN, out \in Ok, failAt \in 0..Cardinality(DocColls) :
           BulkUpdate(l, od, out, failAt)

InitPersistSpec == InitPersist /\ SyncIdle /\ QueryIdle /\ RaceIdle

SpecPersist == InitPersistSpec /\ [][NextPersist]_vars

InitSyncSpec == InitSync /\ PersistIdle /\ QueryIdle /\ RaceIdle

SpecSync == InitSyncSpec /\ [][NextSync]_vars

InitQuerySpec == InitQuery /\ SyncIdle /\ PersistIdle /\ RaceIdle

SpecQuery == InitQuerySpec /\ [][NextQuery]_vars

InitCreateAllSpec == InitCreateAll /\ PersistIdle /\ QueryIdle /\ RaceIdle

SpecCreateAll == InitCreateAllSpec /\ [][NextCreateAll]_vars

InitRaceSpec == InitRace /\ PersistIdle /\ QueryIdle

SpecRace == InitRaceSpec /\ [][NextRace]_vars

\* ------------------------------------------------- synchronizer: properties

Count(op, name) == Cardinality({i \in DOMAIN calls : calls[i] = Call(op, name)})

\* The last operation was a synchronization pass over a graph that existed.
UpdatePass == lastOp \in {"update_graph", "create_all"} /\ pre.graph
SyncOp == lastOp \in {"update_graph", "create_graph", "create_all"}

\* Equivalence of edge definitions as the specification defines it.
SetEquivalent(e1, e2) ==
    Range(e1.from) = Range(e2.from) /\ Range(e1.to) = Range(e2.to)

\* C1: in a pass over an existing graph, a declared relation with a live
\* edge definition is replaced exactly once when the two are not equal as
\* sets of source and target names, and not at all when they are.
C1_ReplaceIffNotSetEquivalent ==
    UpdatePass =>
        \A r \in Declared :
            pre.defs[r] # NoDef =>
                Count("replace_edge_definition", r)
                    = IF SetEquivalent(decl[r], pre.defs[r]) THEN 0 ELSE 1

\* C2: after a pass over an existing graph, every declared vertex and edge
\* collection that was missing exists with its declared indexes.
C2_MissingCollectionsCreatedWithIndexes ==
    UpdatePass =>
        \A c \in DeclVertices \cup Declared :
            pre.colls[c] = "absent" => colls[c] = "indexed"

\* C3: the second of two passes in a row with the declaration unchanged
\* replaces no edge definition.
C3_SecondPassReplacesNothing ==
    syncRun = 2 => \A r \in EdgeNames : Count("replace_edge_definition", r) = 0

\* C4: a pass over an existing graph warns about and deletes, exactly once,
\* each live edge definition without a declared relation, and deletes no
\* edge definition of a declared relation.
C4_StaleDeletedOnceDeclaredNever ==
    UpdatePass =>
        /\ \A r \in EdgeNames \ Declared :
               pre.defs[r] # NoDef =>
                   /\ Count("warning_stale", r) = 1
                   /\ Count("delete_edge_definition", r) = 1
                   /\ edgeDefs[r] = NoDef
        /\ \A r \in Declared :
               /\ Count("delete_edge_definition", r) = 0
               /\ edgeDefs[r] # NoDef

C4_Witness ==
    /\ UpdatePass
    /\ \E r \in EdgeNames \ Declared : pre.defs[r] # NoDef
    /\ \E r \in Declared :
           \/ Count("replace_edge_definition", r) = 1
           \/ Count("create_edge_definition", r) = 1

\* C5: create_graph, update_graph and create_all drop no collection and no
\* graph: whatever existed when the operation started still exists.
C5_SyncNeverDrops ==
    SyncOp =>
        /\ \A c \in CollNames : pre.colls[c] # "absent" => colls[c] # "absent"
        /\ pre.graph => graphExists

C5_Witness ==
    /\ UpdatePass
    /\ \E r \in EdgeNames :
           /\ Count("delete_edge_definition", r) = 1
           /\ colls[r] # "absent"

\* C17: after create_all, from any live topology, the live edge definitions
\* are exactly the declared ones: one per declared relation, equal to the
\* declared shape as sets of source and target names, and none without a
\* declared relation.
C17_CreateAllConvergesToDeclaration ==
    lastOp = "create_all" =>
        \A r \in EdgeNames :
            IF r \in Declared
            THEN edgeDefs[r] # NoDef /\ SetEquivalent(decl[r], edgeDefs[r])
            ELSE edgeDefs[r] = NoDef

\* The collection classes of the last create_all's list that no graph of the
\* list covers.
StandaloneClasses ==
    {c \in Range(kwargs.db_objects) \ {"g"} :
        "g" \in Range(kwargs.db_objects) => c \notin DeclVertices \cup Declared}

\* C22: after create_all of a list of collection and graph classes, every
\* collection class of the list that is not covered by a graph, vertex or
\* relation, exists, and the standalone phase issued no create call for a
\* collection that existed when it started.
C22_StandaloneCollectionsCreated ==
    lastOp = "create_all" =>
        /\ \A c \in StandaloneClasses : colls[c] # "absent"
        /\ \A i \in DOMAIN calls :
               calls[i].op = "info_creating_collection" =>
                   /\ pre.colls[calls[i].name] = "absent"
                   /\ \A j \in 1..(i - 1) : calls[j] # Call("create_collection", calls[i].name)

\* C23: of two create_all passes interleaved call by call, neither aborts
\* on a collection, a graph or an edge definition the other pass created
\* between its check and its own create call.
C23_DuplicateCreationNeverAborts ==
    \A p \in Passes :
        pc[p].raised \notin {"create_collection", "create_graph", "create_edge_definition"}

\* C18: drop_graph with drop_collections=True and ignore_collections drops
\* the graph and its member collections except the ones named in the list.
C18_DropGraphKeepsIgnoredCollections ==
    (lastOp = "drop_graph" /\ kwargs.drop_collections /\ pre.graph) =>
        /\ ~graphExists
        /\ \A c \in CollNames :
               pre.colls[c] # "absent" =>
                   IF c \in kwargs.ignore_collections
                   THEN colls[c] = pre.colls[c]
                   ELSE (\E r \in EdgeNames : pre.defs[r] # NoDef /\ c \in ShapeColls(r, pre.defs[r]))
                            => colls[c] = "absent"

\* ---------------------------------------------------- persister: properties

ClientCalls == SelectSeq(pev, LAMBDA ev : ev.kind = "call")
CallsNamed(name) == SelectSeq(ClientCalls, LAMBDA ev : ev.name = name)
Hooks == SelectSeq(pev, LAMBDA ev : ev.kind = "hook")
WriteOps == {"add", "update", "bulk_add", "bulk_update"}
\* The last call was a write that returned without raising.
Succeeded == pop.op \in WriteOps /\ ~Failed(pev)
\* The entities a client call of the last operation wrote successfully.
Written ==
    {e \in Entities : \E i \in DOMAIN pev :
        /\ pev[i].kind = "call"
        /\ pev[i].res # <<>>
        /\ e \in Range(pev[i].ents)}

\* C6: after a successful add, update, bulk_add or bulk_update the dirty set
\* of every entity written is empty; key_ and rev_ are not left in it.
C6_DirtyEmptyAfterWrite ==
    Succeeded => \A e \in Written : ents[e].dirty = {}

C6_Witness ==
    /\ Succeeded
    /\ pop.op = "update"
    /\ \E e \in Written : ppre[e].dirty # {} /\ ents[e].rev # ppre[e].rev

\* C7: of two update(entity, only_dirty=True) calls in a row on an entity
\* with a non-empty dirty set, the first makes exactly one remote update and
\* the second makes none and dispatches no hook.
C7_SecondOnlyDirtyUpdateIsNoOp ==
    pop.op = "update" =>
        /\ streak.n = 1 => Len(ClientCalls) = 1 /\ Len(CallsNamed("update")) = 1
        /\ streak.n = 2 => ClientCalls = <<>> /\ Hooks = <<>> /\ ents = ppre

C7_Witness == pop.op = "update" /\ streak.n = 2

\* The entities of the last bulk call that belong to collection c, in input
\* order.
GroupOf(c) == SelectSeq(pop.ents, LAMBDA e : CollOf[e] = c)
\* The last bulk call neither stopped at an entity with an empty dirty set
\* nor met a raising client.
RanToCompletion ==
    /\ ~Failed(pev)
    /\ ~(pop.only_dirty /\ \E e \in Range(pop.ents) : ppre[e].dirty = {})
\* Every entry of payload d is entity e's.
PayloadOf(d, e) ==
    \A a \in DOMAIN d :
        d[a] = IF a = "_key" THEN ppre[e].key
               ELSE IF a = "_rev" THEN ppre[e].rev ELSE ValOf(e)

\* C8: bulk_add of entities of k collections issues k insert_many calls, one
\* per collection, each with that collection's payloads in input order, and
\* each entity ends with the key and revision of the result at its position.
C8_BulkAddOneCallPerCollection ==
    (pop.op = "bulk_add" /\ RanToCompletion) =>
        /\ ClientCalls = CallsNamed("insert_many")
        /\ Len(ClientCalls) = Cardinality({CollOf[e] : e \in Range(pop.ents)})
        /\ \A c \in {CollOf[e] : e \in Range(pop.ents)} :
               \E i \in DOMAIN ClientCalls :
                   LET call == ClientCalls[i]
                       group == GroupOf(c)
                   IN  /\ call.coll = c
                       /\ Len(call.data) = Len(group)
                       /\ Len(call.res) = Len(group)
                       /\ \A j \in DOMAIN group :
                              /\ PayloadOf(call.data[j], group[j])
                              /\ ~pop.only_dirty =>
                                     AliasOf(DataField[c]) \in DOMAIN call.data[j]
                              /\ ents[group[j]].key = call.res[j]["_key"]
                              /\ ents[group[j]].rev = call.res[j]["_rev"]

C8_Witness ==
    /\ pop.op = "bulk_add"
    /\ RanToCompletion
    /\ Len(pop.ents) = 3
    /\ Len(ClientCalls) = 2
    /\ \A e \in Entities : ppre[e].key = None /\ ents[e].key # None

\* C9: a successful add of an entity without key and revision sends exactly
\* one insert and leaves the entity with the key and revision it returned.
C9_AddWritesBackIdentity ==
    \A e \in Entities :
        (pop.op = "add" /\ pop.ents = <<e>> /\ ~Failed(pev)
            /\ ppre[e].key = None /\ ppre[e].rev = None) =>
                /\ Len(ClientCalls) = 1
                /\ ClientCalls[1].name = "insert"
                /\ ClientCalls[1].res # <<>>
                /\ ents[e].key = ClientCalls[1].res[1]["_key"]
                /\ ents[e].rev = ClientCalls[1].res[1]["_rev"]
                /\ ents[e].key # None /\ ents[e].rev # None

C9_Witness ==
    \E e \in Entities :
        /\ pop.op = "add" /\ pop.ents = <<e>> /\ ~Failed(pev)
        /\ ppre[e].key = None /\ ppre[e].rev = None
        /\ ents[e].key \in KeysOf[CollOf[e]] /\ ents[e].rev \in Revs

\* C10: no payload handed to insert, update, insert_many or update_many has
\* a "_key" or "_rev" entry whose value is null.
C10_NoNullIdentityInPayload ==
    \A i \in DOMAIN pev :
        (pev[i].kind = "call" /\ pev[i].name # "delete") =>
            \A j \in DOMAIN pev[i].data :
                \A k \in {"_key", "_rev"} \cap DOMAIN pev[i].data[j] :
                    pev[i].data[j][k] # None

C10_Witness ==
    \E i \in DOMAIN pev :
        /\ pev[i].kind = "call"
        /\ pev[i].name = "update_many"
        /\ \E j \in DOMAIN pev[i].data :
               /\ ppre[pev[i].ents[j]].key # None
               /\ ppre[pev[i].ents[j]].rev = None
               /\ ~pop.only_dirty
               /\ DOMAIN pev[i].data[j] = {"_key", AliasOf(DataField[pev[i].coll])}

\* C11: add(entity, if_present="ignore") on an entity whose key exists in
\* its collection attaches the persister and does nothing else: no client
\* call, no hook, the entity's identity and dirty set as they were.
C11_AddIgnoreExistingIsNoOp ==
    \A e \in Entities :
        (pop.op = "add" /\ pop.ents = <<e>> /\ pop.if_present = "ignore"
            /\ ppre[e].key # None /\ pop.exists) =>
                /\ ClientCalls = <<>>
                /\ Hooks = <<>>
                /\ pev = <<Attach(e)>>
                /\ ents = ppre

C11_Witness ==
    \E e \in Entities :
        /\ pop.op = "add" /\ pop.ents = <<e>> /\ pop.if_present = "ignore"
        /\ ppre[e].key # None /\ pop.exists
        /\ ppre[e].dirty # {}
        /\ pev = <<Attach(e)>>

\* Every entity of every batched call named callname had hook dispatched
\* for it before that call.
HookBeforeCall(hook, callname) ==
    \A i \in DOMAIN pev :
        (pev[i].kind = "call" /\ pev[i].name = callname) =>
            \A e \in Range(pev[i].ents) :
                \E j \in 1..(i - 1) : pev[j] = Hook(hook, e)

\* C19: bulk_add dispatches pre_add for each entity before the insert_many
\* call of the entity's group, and bulk_update dispatches pre_update before
\* the update_many call.
C19_BulkPreHooksMatchSingle ==
    /\ pop.op = "bulk_add" => HookBeforeCall("pre_add", "insert_many")
    /\ pop.op = "bulk_update" => HookBeforeCall("pre_update", "update_many")

\* C20: in bulk_add and bulk_update an entity's dirty set is cleared and its
\* post hook dispatched only after the batched call of its group returned;
\* an entity whose group's call raised or was never issued keeps its dirty
\* set.
C20_BulkClearsOnlyAfterBatchReturns ==
    pop.op \in {"bulk_add", "bulk_update"} =>
        /\ \A e \in Entities \ Written : ents[e].dirty = ppre[e].dirty
        /\ \A i \in DOMAIN pev :
               (pev[i].kind = "hook" /\ pev[i].name \in {"post_add", "post_update"}) =>
                   \E j \in 1..(i - 1) :
                       /\ pev[j].kind = "call"
                       /\ pev[j].res # <<>>
                       /\ pev[i].ents[1] \in Range(pev[j].ents)

\* C21: update and bulk_update with only_dirty=True send, for an entity with
\* a key and a non-empty dirty set, the key and one entry for every dirty
\* field under its alias, and no entry for a field that is neither dirty nor
\* an identity field.
C21_OnlyDirtyPayloadIsKeyPlusDirtyFields ==
    (pop.op \in {"update", "bulk_update"} /\ pop.only_dirty) =>
        \A i \in DOMAIN pev :
            pev[i].kind = "call" =>
                \A j \in DOMAIN pev[i].data :
                    LET e == pev[i].ents[j]
                        sent == DOMAIN pev[i].data[j]
                        dirty == {AliasOf(f) : f \in ppre[e].dirty}
                    IN  (ppre[e].dirty # {} /\ ppre[e].key # None) =>
                            /\ "_key" \in sent
                            /\ pev[i].data[j]["_key"] = ppre[e].key
                            /\ dirty \subseteq sent
                            /\ sent \subseteq dirty \cup {"_key", "_rev"}

\* C24: when the insert, update or delete call made by add, update or delete
\* raises, the call ends with that error, no post hook is dispatched, and the
\* entity's key, revision and dirty set are as they were before the call.
C24_RemoteErrorLeavesEntityUntouched ==
    \A e \in Entities :
        (pop.op \in {"add", "update", "delete"} /\ pop.ents = <<e>> /\ Failed(pev)) =>
                /\ Len(ClientCalls) = 1
                /\ pev[Len(pev)] = Raised(ClientCalls[1].name)
                /\ pev[Len(pev) - 1] = ClientCalls[1]
                /\ \A i \in DOMAIN Hooks :
                       Hooks[i].name \notin {"post_add", "post_update", "post_delete"}
                /\ ents = ppre

C24_Witness ==
    \E e \in Entities :
        /\ pop.op = "update" /\ pop.ents = <<e>> /\ Failed(pev)
        /\ ppre[e].key # None /\ ppre[e].dirty # {}
        /\ Hooks = <<Hook("pre_update", e)>>

\* ------------------------------------------------ query builder: properties

\* The calls of one kind made on the builder that returned, in call order.
QCalls(op) == SelectSeq(qhist, LAMBDA c : c.op = op /\ ~c.raised)
\* all() was the last call: executed holds the compiled query.
Compiled == executed # NoQuery
\* Where the compiled query has its LIMIT keyword.
LimitAt == {i \in DOMAIN executed.query : executed.query[i] = Kw("LIMIT")}
\* The joiner a filter call asks for.
Asked(call) == IF call.args.useOr THEN "OR" ELSE "AND"

\* C12: the first predicate appended by filter has no joiner and compiles
\* after FILTER; each later one has OR exactly when its own call passed
\* _or=True and AND otherwise, whatever the other calls were.
C12_JoinerFollowsOwnCall ==
    LET fcalls == QCalls("filter")
    IN  /\ Len(filter_conditions) = Len(fcalls)
        /\ \A i \in DOMAIN fcalls :
               /\ filter_conditions[i].condition = fcalls[i].args.condition
               /\ filter_conditions[i].joiner = IF i = 1 THEN None ELSE Asked(fcalls[i])
               /\ Compiled =>
                      /\ executed.query[2 * i] = Kw(IF i = 1 THEN "FILTER" ELSE Asked(fcalls[i]))
                      /\ executed.query[2 * i + 1] = Rec(fcalls[i].args.condition)

C12_Witness ==
    /\ Compiled
    /\ Len(qhist) = 3
    /\ qhist[1].op = "filter" /\ qhist[1].args.useOr
    /\ qhist[2].op = "sort"
    /\ qhist[3].op = "filter" /\ qhist[3].args.useOr
    /\ executed.query[4] = Kw("OR")

\* C13: the query all() compiles is the iteration, the filters in the order
\* they were added, one SORT clause with the keys in call order when there is
\* a key, at most one LIMIT clause and none unless limit was called, and the
\* projection, whatever the order of the builder calls.
C13_ClauseOrder ==
    Compiled =>
        LET fcalls == QCalls("filter")
            scalls == QCalls("sort")
            nf == 2 * Len(fcalls)
            ns == IF scalls = <<>> THEN 0 ELSE 2 * Len(scalls)
            text == executed.query
            rest == SubSeq(text, 2 + nf + ns, Len(text) - 1)
        IN  /\ Len(text) >= 2 + nf + ns
            /\ text[1] = Kw("FOR rec IN @@collection")
            /\ \A i \in DOMAIN fcalls :
                   /\ text[2 * i].t = "kw" /\ text[2 * i].s \in {"FILTER", "AND", "OR"}
                   /\ text[2 * i + 1] = Rec(fcalls[i].args.condition)
            /\ scalls # <<>> => text[2 + nf] = Kw("SORT")
            /\ \A i \in DOMAIN scalls :
                   /\ text[1 + nf + 2 * i] = Rec(scalls[i].args)
                   /\ i > 1 => text[nf + 2 * i] = Kw(",")
            /\ \/ rest = <<>>
               \/ /\ QCalls("limit") # <<>>
                  /\ Len(rest) = 4
                  /\ rest[1] = Kw("LIMIT") /\ rest[2].t = "num"
                  /\ rest[3] = Kw(",") /\ rest[4].t = "num"
            /\ text[Len(text)] = Kw("RETURN rec")
            /\ \A i \in DOMAIN text : text[i] = Kw("SORT") => (scalls # <<>> /\ i = 2 + nf)

C13_Witness ==
    /\ Compiled
    /\ Len(qhist) = 3
    /\ qhist[1].op = "limit" /\ qhist[2].op = "sort" /\ qhist[3].op = "filter"
    /\ LimitAt = {6}
    /\ Len(executed.query) = 10

\* C14: once limit has been called with a count of 0 or more and an offset
\* of 0 or more, the compiled query has exactly one LIMIT clause, the offset
\* before the count; without a limit call it has none.
C14_OneLimitClauseForNonNegativeCount ==
    Compiled =>
        LET lcalls == QCalls("limit")
            last == lcalls[Len(lcalls)]
        IN  IF lcalls = <<>>
            THEN LimitAt = {}
            ELSE (last.args[1].int >= 0 /\ StartFrom(last.args).int >= 0) =>
                     /\ Cardinality(LimitAt) = 1
                     /\ \A i \in LimitAt :
                            SubSeq(executed.query, i, i + 3)
                                = <<Kw("LIMIT"), Num(StartFrom(last.args)), Kw(","), Num(last.args[1])>>

\* C15: limit with a negative count or a negative offset raises and leaves
\* the limit and the offset set before as they were.
C15_NegativeLimitRejected ==
    (qhist # <<>> /\ qhist[Len(qhist)].op = "limit") =>
        LET call == qhist[Len(qhist)]
            Negative(v) == IsInstanceInt(v) /\ v.int < 0
        IN  (Negative(call.args[1]) \/ Negative(StartFrom(call.args))) =>
                /\ call.raised
                /\ limit = qpre.limit
                /\ limit_start_record = qpre.limit_start_record

\* C16: after any sequence of limit calls the builder holds the count and
\* the offset of the last call only, the offset 0 when that call gave none,
\* and the LIMIT clause all() compiles is written from those two.
C16_LastLimitCallWins ==
    LET lcalls == QCalls("limit")
        last == lcalls[Len(lcalls)]
    IN  lcalls # <<>> =>
            /\ limit = last.args[1]
            /\ limit_start_record = (IF Len(last.args) >= 2 THEN last.args[2] ELSE PyInt(0))
            /\ Compiled =>
                   \A i \in LimitAt :
                       /\ executed.query[i + 1] = Num(limit_start_record)
                       /\ executed.query[i + 3] = Num(limit)

C16_Witness ==
    /\ Compiled
    /\ Len(qhist) >= 2
    /\ qhist[Len(qhist) - 1] = QCall("limit", <<PyInt(5), PyInt(10)>>, FALSE)
    /\ qhist[Len(qhist)] = QCall("limit", <<PyInt(2)>>, FALSE)
    /\ \E i \in LimitAt : SubSeq(executed.query, i, i + 3)
                              = <<Kw("LIMIT"), Num(PyInt(0)), Kw(","), Num(PyInt(2))>>

\* C25: after any filter, sort and limit calls the bind variables still bind
\* @collection to the collection the builder was created for, and all()
\* executes with that binding.
C25_CollectionBindingKept ==
    /\ "@collection" \in DOMAIN bind_vars
    /\ bind_vars["@collection"] = QueryColl
    /\ Compiled => executed.bind_vars["@collection"] = QueryColl

====
